---- MODULE Spec2Model ----
(***************************************************************************)
(* A model of the three scripts of the repository:                         *)
(*   - mediboard_experiment.py: the LlamaParse extraction pipeline (main,  *)
(*     extract_document, _perform_matching and the three matchers);        *)
(*   - experiment_direct_json_vs_xml.py: the prompting experiment loop;    *)
(*   - test-docstrange.py: the file-by-file conversion loop.               *)
(* Strings are sequences of one-character strings, so that case folding    *)
(* and substring containment are computed and not assumed.                 *)
(***************************************************************************)
EXTENDS Integers, Sequences, FiniteSets, TLC

VARIABLES
    \* ---- the matchers applied to one query (SpecMatch)
    mpc,        \* "ready" | "done"
    mKind,      \* "physician" | "facility" | "lab"
    mInfo,      \* the extracted entity handed to the matcher
    mRefs,      \* reference_data: [doctors, institutions, sample_lab_tests]
    mEmbed,     \* what _vectorize_data does: "ok" | "nokey" | "fail"
    mResult,    \* the matcher's return value
    \* ---- mediboard_experiment.py run on one document (Spec)
    pc,             \* main's position: "main" | "construct" | "upload" | "poll"
                    \*   | "fetch" | "structured" | "matching" | "output" | "exited"
    fileExists,     \* Path(args.file_path).exists()
    llamaKey,       \* LLAMA_CLOUD_API_KEY is set
    openaiKey,      \* OPENAI_API_KEY is set
    diagnostics,    \* the messages main printed before exiting
    exitCode,       \* the process's exit code, -1 while it runs
    constructed,    \* StandaloneLlamaParseExtractor() was called
    reference_data, \* self.reference_data
    stages,         \* the stages extract_document entered, in order
    nPolls,         \* get_job_status calls made, counted up to MaxPolls
    upload_response,
    status_response,
    result_response,
    structured_data,
    matched_data,
    result,         \* what extract_document returned
    \* ---- experiment_direct_json_vs_xml.py (SpecExperiment)
    epc,            \* "run" | "summarize" | "save" | "done" | "crashed"
    test,           \* index of the prompt of PROMPTS being tested
    method,         \* "plain_json" | "xml_wrapped"
    run,            \* repetitions of the current pair already made
    successes,
    total_input_tokens,
    total_output_tokens,
    total_cost,     \* in millionths of a dollar
    detailed_runs,
    results,
    saved,          \* OUTPUT_FILE was written
    calls,          \* what call_model did in each repetition of the pair
    history,        \* the calls of each pair summarised so far
    \* ---- test-docstrange.py (SpecDocstrange)
    dpc,            \* "loop" | "done" | "crashed"
    files,          \* os.listdir(input_dir), the plain files
    nextFile,       \* index in files of the file processed next
    written,        \* output path -> markdown written there
    printed,        \* the "Processed ..." lines printed
    \* ---- extract_json_from_xml_or_markdown applied on its own (SpecNormalize)
    npc,            \* "ready" | "once" | "twice"
    nText,          \* the argument
    nShape,         \* how the argument was built: its wrapping, or "free"
    nPayload,       \* the payload that was wrapped, <<>> for a free text
    nOut,           \* what the call returned, or the exception it raised
    nTwice          \* what the call on nOut returned

mvars == <<mpc, mKind, mInfo, mRefs, mEmbed, mResult>>
envvars == <<fileExists, llamaKey, openaiKey>>
docvars == <<stages, nPolls, upload_response, status_response, result_response,
             structured_data, matched_data, result>>
pvars == <<pc, envvars, diagnostics, exitCode, constructed, reference_data,
           docvars>>
evars == <<epc, test, method, run, successes, total_input_tokens,
           total_output_tokens, total_cost, detailed_runs, results, saved,
           calls, history>>
dvars == <<dpc, files, nextFile, written, printed>>
nvars == <<npc, nText, nShape, nPayload, nOut, nTwice>>
vars == <<mvars, pvars, evars, dvars, nvars>>

----------------------------------------------------------------------------
(* Bounds *)

\* the longest reference list handed to a matcher
MaxRefs == 2
\* the polls counted by nPolls; later polls leave the count as it is
MaxPolls == 3
\* the longest lab_reports list of a structured payload
MaxLab == 2

----------------------------------------------------------------------------
(* Strings *)

\* a JSON null, and a key that is absent from the record
Null == <<"NULL">>
Missing == <<"MISSING">>

\* str.lower() on one character
LowerChar(c) ==
    CASE c = "A" -> "a"
      [] c = "B" -> "b"
      [] OTHER -> c

\* str.lower()
Lower(s) == [i \in 1..Len(s) |-> LowerChar(s[i])]

\* Python's `a in b` on strings: a is a contiguous substring of b
In(a, b) ==
    \E k \in 0..(Len(b) - Len(a)) : SubSeq(b, k + 1, k + Len(a)) = a

\* dict.get(key, ""): the default replaces an absent key only, never a null
GetNoDefault(v) == v
GetNullAsEmpty(v) == IF v \in {Missing, Null} THEN <<>> ELSE v
Get(v) == IF v = Missing THEN <<>> ELSE v

\* the strings the extracted fields are drawn from
QueryStr == {<<>>, <<"a">>, <<"A">>, <<"b">>, <<"A", "B">>}
QueryField == QueryStr \cup {Null, Missing}
\* the strings the reference tables hold
RefStr == {<<"a">>, <<"a", "b">>, <<"B">>}

----------------------------------------------------------------------------
(* Match results *)

None == [id |-> 0]

FailureAsUnknown(msg) ==
    [status |-> TRUE, matched |-> None, match_score |-> "Unknown",
     confidence |-> [num |-> 0, den |-> 1]]
Failure(msg) == [status |-> FALSE, message |-> msg]

\* best_score / 2.0 and best_score / 3.0, kept as a fraction
Frac(n, d) == [num |-> n, den |-> d]
Zero == Frac(0, 1)

MatchResult(entity, label, conf) ==
    [status |-> TRUE, matched |-> entity, match_score |-> label,
     confidence |-> conf]

\* `if score > best_score:` of the three scan loops
BetterGE(score, best_score) == score >= best_score
Better(score, best_score) == score > best_score

\* the scan loop: the index of best_match (0 for None) and best_score, after
\* the entities 1..n of the list were visited left to right
RECURSIVE ScanKeepsLast(_, _)
ScanKeepsLast(scores, n) ==
    IF n = 0 THEN [idx |-> 0, score |-> 0]
    ELSE LET prev == ScanKeepsLast(scores, n - 1)
         IN  IF scores[n] >= prev.score /\ scores[n] > 0
             THEN [idx |-> n, score |-> scores[n]]
             ELSE prev
RECURSIVE Scan(_, _)
Scan(scores, n) ==
    IF n = 0 THEN [idx |-> 0, score |-> 0]
    ELSE LET prev == Scan(scores, n - 1)
         IN  IF Better(scores[n], prev.score)
             THEN [idx |-> n, score |-> scores[n]]
             ELSE prev

\* `if best_match and best_score > 0:`; a reference entity is a non-empty
\* record, so best_match is truthy exactly when one was chosen
FoundAboveOne(best) == best.idx # 0 /\ best.score > 1
Found(best) == best.idx # 0 /\ best.score > 0

----------------------------------------------------------------------------
(* _match_physician *)

PhysicianScoreFirstOnly(first_name, last_name, doctor) ==
    IF In(first_name, Lower(doctor.doctorName))
       \/ In(Lower(doctor.doctorName), first_name) THEN 1 ELSE 0

PhysicianScore(first_name, last_name, doctor) ==
    (IF In(first_name, Lower(doctor.doctorName))
        \/ In(Lower(doctor.doctorName), first_name) THEN 1 ELSE 0)
    + (IF In(last_name, Lower(doctor.doctorLastName))
          \/ In(Lower(doctor.doctorLastName), last_name) THEN 1 ELSE 0)

PhysicianLabel(best_score) ==
    IF best_score = 2 THEN "Similar: Typo" ELSE "Alternative"

match_physician_without_retriever(physician_info, doctors, embed) ==
    IF doctors = <<>> THEN Failure("No doctor reference data available")
    ELSE IF Get(physician_info.first_name) = Null
            \/ Get(physician_info.last_name) = Null
         THEN Failure("AttributeError")
    ELSE LET first_name == Lower(Get(physician_info.first_name))
             last_name == Lower(Get(physician_info.last_name))
             scores == [i \in 1..Len(doctors) |->
                           PhysicianScore(first_name, last_name, doctors[i])]
             best == Scan(scores, Len(doctors))
         IN  IF Found(best)
             THEN MatchResult(doctors[best.idx], PhysicianLabel(best.score),
                              Frac(best.score, 2))
             ELSE MatchResult(None, "Unknown", Zero)

match_physician(physician_info, doctors, embed) ==
    IF doctors = <<>> THEN Failure("No doctor reference data available")
    ELSE IF embed = "nokey"
         THEN Failure("OpenAI API key required for embeddings")
    ELSE IF embed = "fail" THEN Failure("embedding error")
    ELSE IF Get(physician_info.first_name) = Null
            \/ Get(physician_info.last_name) = Null
         THEN Failure("AttributeError")
    ELSE LET first_name == Lower(Get(physician_info.first_name))
             last_name == Lower(Get(physician_info.last_name))
             scores == [i \in 1..Len(doctors) |->
                           PhysicianScore(first_name, last_name, doctors[i])]
             best == Scan(scores, Len(doctors))
         IN  IF Found(best)
             THEN MatchResult(doctors[best.idx], PhysicianLabel(best.score),
                              Frac(best.score, 2))
             ELSE MatchResult(None, "Unknown", Zero)

----------------------------------------------------------------------------
(* _match_facility *)

FacilityScore(facility_name, institution) ==
    IF In(facility_name, Lower(institution.displayName))
       \/ In(Lower(institution.displayName), facility_name) THEN 2
    ELSE IF In(facility_name, Lower(institution.value))
            \/ In(Lower(institution.value), facility_name) THEN 1
    ELSE 0

FacilityLabel(best_score) ==
    IF best_score = 2 THEN "Similar: Typo" ELSE "Alternative"

match_facility(facility_info, institutions) ==
    IF institutions = <<>>
    THEN Failure("No institution reference data available")
    ELSE IF Get(facility_info.facility_name) = Null
         THEN Failure("AttributeError")
    ELSE LET facility_name == Lower(Get(facility_info.facility_name))
             scores == [i \in 1..Len(institutions) |->
                           FacilityScore(facility_name, institutions[i])]
             best == Scan(scores, Len(institutions))
         IN  IF Found(best)
             THEN MatchResult(institutions[best.idx], FacilityLabel(best.score),
                              Frac(best.score, 2))
             ELSE MatchResult(None, "Unknown", Zero)

----------------------------------------------------------------------------
(* _match_lab_report *)

LabScoreHeavy(param_name, test_type, lab_test) ==
    (IF In(param_name, Lower(lab_test.parameter))
        \/ In(Lower(lab_test.parameter), param_name) THEN 2 ELSE 0)
    + (IF In(test_type, Lower(lab_test.test_type))
          \/ In(Lower(lab_test.test_type), test_type) THEN 2 ELSE 0)

LabScore(param_name, test_type, lab_test) ==
    (IF In(param_name, Lower(lab_test.parameter))
        \/ In(Lower(lab_test.parameter), param_name) THEN 2 ELSE 0)
    + (IF In(test_type, Lower(lab_test.test_type))
          \/ In(Lower(lab_test.test_type), test_type) THEN 1 ELSE 0)

LabLabelFullOnly(best_score) ==
    IF best_score = 3 THEN "Similar: Typo" ELSE "Alternative"

LabLabel(best_score) ==
    IF best_score >= 2 THEN "Similar: Typo" ELSE "Alternative"

match_lab_report(lab_report, sample_lab_tests) ==
    IF sample_lab_tests = <<>>
    THEN Failure("No lab test reference data available")
    ELSE IF Get(lab_report.name) = Null \/ Get(lab_report.test_type) = Null
         THEN Failure("AttributeError")
    ELSE LET param_name == Lower(Get(lab_report.name))
             test_type == Lower(Get(lab_report.test_type))
             scores == [i \in 1..Len(sample_lab_tests) |->
                           LabScore(param_name, test_type, sample_lab_tests[i])]
             best == Scan(scores, Len(sample_lab_tests))
         IN  IF Found(best)
             THEN [status |-> TRUE, original_parameter |-> lab_report,
                   matched |-> sample_lab_tests[best.idx],
                   match_score |-> LabLabel(best.score),
                   confidence |-> Frac(best.score, 3)]
             ELSE [status |-> TRUE, original_parameter |-> lab_report,
                   matched |-> None, match_score |-> "Unknown",
                   confidence |-> Zero]

----------------------------------------------------------------------------
(* Reference tables and extracted entities the matchers are applied to *)

\* the lists of at most n elements of S
SeqsUpTo(S, n) == UNION {[1..k -> S] : k \in 0..n}

\* a table as loaded from static/ocr_data.json: the ids number the rows
WithIds(rows) == [i \in 1..Len(rows) |-> [id |-> i] @@ rows[i]]

DoctorRows == [doctorName : RefStr, doctorLastName : RefStr]
InstitutionRows == [displayName : RefStr, value : RefStr]
LabTestRows == [parameter : RefStr, test_type : RefStr]

PhysicianInfos == [first_name : QueryField, last_name : QueryField]
FacilityInfos == [facility_name : QueryField]
LabReports == [name : QueryField, test_type : QueryField]

NoRefs == [doctors |-> <<>>, institutions |-> <<>>, sample_lab_tests |-> <<>>]

----------------------------------------------------------------------------
(* The variables of a script that is not the one being run *)

MatchIdle ==
    /\ mpc = "idle" /\ mKind = "none" /\ mInfo = None /\ mRefs = NoRefs
    /\ mEmbed = "ok" /\ mResult = None

PipeIdle ==
    /\ pc = "idle" /\ fileExists = FALSE /\ llamaKey = FALSE
    /\ openaiKey = FALSE /\ diagnostics = <<>> /\ exitCode = -1
    /\ constructed = FALSE /\ reference_data = NoRefs /\ stages = <<>>
    /\ nPolls = 0 /\ upload_response = None /\ status_response = None
    /\ result_response = None /\ structured_data = None
    /\ matched_data = None /\ result = None

ExperimentIdle ==
    /\ epc = "idle" /\ test = 0 /\ method = "none" /\ run = 0
    /\ successes = 0 /\ total_input_tokens = 0 /\ total_output_tokens = 0
    /\ total_cost = 0 /\ detailed_runs = <<>> /\ results = <<>>
    /\ saved = FALSE /\ calls = <<>> /\ history = <<>>

DocstrangeIdle ==
    /\ dpc = "idle" /\ files = <<>> /\ nextFile = 0 /\ written = <<>>
    /\ printed = <<>>

NormalizeIdle ==
    /\ npc = "idle" /\ nText = <<>> /\ nShape = "free" /\ nPayload = <<>>
    /\ nOut = <<>> /\ nTwice = <<>>

----------------------------------------------------------------------------
(* LlamaParseAPI: what the three calls hand back to extract_document *)

\* the call raised something that is not a RequestException (upload_file's
\* FileNotFoundError), or response.json() was not an object, so that the
\* first use of the response raises inside extract_document
Raises == [raises |-> TRUE]

\* {"error": str(e)} or the service's JSON object; id "" stands for no id
UploadResponses == [error : BOOLEAN, id : {"", "job"}]
StatusResponses ==
    [error : BOOLEAN, status : {"SUCCESS", "FAILED", "PENDING", "absent"}]
ResultResponses == [error : BOOLEAN, markdown : {"", "md"}]

----------------------------------------------------------------------------
(* _perform_matching *)

Absent == [absent |-> TRUE]

\* `if structured_data.get(key):` on a record-valued key
Truthy(info) == info # Absent

\* lab_reports: absent, a list of line items, or a JSON scalar (a number,
\* true) that is truthy and cannot be iterated
LabAbsent == [kind |-> "absent", items |-> <<>>]
LabScalar == [kind |-> "scalar", items |-> <<>>]
LabList(items) == [kind |-> "list", items |-> items]

perform_matching_no_skip(sd, refs, embed) ==
    IF sd.lab_reports.kind = "scalar" THEN [error |-> "TypeError"]
    ELSE [physician_matching |->
              IF Truthy(sd.physician_info)
              THEN match_physician(sd.physician_info, refs.doctors, embed)
              ELSE match_physician([first_name |-> Missing,
                                    last_name |-> Missing],
                                   refs.doctors, embed),
          facility_matching |->
              IF Truthy(sd.medical_facility)
              THEN match_facility(sd.medical_facility, refs.institutions)
              ELSE None,
          lab_report_matching |->
              [i \in 1..Len(sd.lab_reports.items) |->
                  match_lab_report(sd.lab_reports.items[i],
                                   refs.sample_lab_tests)]]

perform_matching_keeps_matches_only(sd, refs, embed) ==
    IF sd.lab_reports.kind = "scalar" THEN [error |-> "TypeError"]
    ELSE [physician_matching |->
              IF Truthy(sd.physician_info)
              THEN match_physician(sd.physician_info, refs.doctors, embed)
              ELSE None,
          facility_matching |->
              IF Truthy(sd.medical_facility)
              THEN match_facility(sd.medical_facility, refs.institutions)
              ELSE None,
          lab_report_matching |->
              SelectSeq([i \in 1..Len(sd.lab_reports.items) |->
                            match_lab_report(sd.lab_reports.items[i],
                                             refs.sample_lab_tests)],
                        LAMBDA m : m.status)]

perform_matching(sd, refs, embed) ==
    IF sd.lab_reports.kind = "scalar" THEN [error |-> "TypeError"]
    ELSE [physician_matching |->
              IF Truthy(sd.physician_info)
              THEN match_physician(sd.physician_info, refs.doctors, embed)
              ELSE None,
          facility_matching |->
              IF Truthy(sd.medical_facility)
              THEN match_facility(sd.medical_facility, refs.institutions)
              ELSE None,
          lab_report_matching |->
              [i \in 1..Len(sd.lab_reports.items) |->
                  match_lab_report(sd.lab_reports.items[i],
                                   refs.sample_lab_tests)]]

\* _vectorize_data: no embeddings without the OpenAI key; FAISS may fail
EmbedOutcomes(key) == IF key THEN {"ok", "fail"} ELSE {"nokey"}

----------------------------------------------------------------------------
(* extract_document *)

FailureResult(msg) == [status |-> FALSE, message |-> msg, data |-> None]

SuccessUnlessMatchError(markdown_content, data, matched) ==
    IF "error" \in DOMAIN matched THEN FailureResult(matched.error)
    ELSE [status |-> TRUE, message |-> "Extraction completed successfully",
          data |-> [raw_markdown |-> markdown_content,
                    structured_extraction |-> data,
                    matched_results |-> matched]]

SuccessResult(markdown_content, data, matched) ==
    [status |-> TRUE, message |-> "Extraction completed successfully",
     data |-> [raw_markdown |-> markdown_content,
               structured_extraction |-> data,
               matched_results |-> matched]]

\* lines 442-447: what the upload response leads to
UploadStepIgnoresId(r) ==
    IF r = Raises THEN "raise"
    ELSE IF r.error THEN "error"
    ELSE "ok"

UploadStep(r) ==
    IF r = Raises THEN "raise"
    ELSE IF r.error THEN "error"
    ELSE IF r.id = "" THEN "noid"
    ELSE "ok"

\* lines 456-467: what one poll leads to
PollStepAbsentFails(r) ==
    IF r = Raises THEN "raise"
    ELSE IF r.error THEN "error"
    ELSE IF r.status = "SUCCESS" THEN "break"
    ELSE IF r.status \in {"FAILED", "absent"} THEN "failed"
    ELSE "sleep"

PollStepFailedWaits(r) ==
    IF r = Raises THEN "raise"
    ELSE IF r.error THEN "error"
    ELSE IF r.status = "SUCCESS" THEN "break"
    ELSE "sleep"

PollStepSuccessWaits(r) ==
    IF r = Raises THEN "raise"
    ELSE IF r.error THEN "error"
    ELSE IF r.status = "FAILED" THEN "failed"
    ELSE "sleep"

PollStep(r) ==
    IF r = Raises THEN "raise"
    ELSE IF r.error THEN "error"
    ELSE IF r.status = "SUCCESS" THEN "break"
    ELSE IF r.status = "FAILED" THEN "failed"
    ELSE "sleep"

\* lines 473-478: what the fetched result leads to
FetchStepKeepsEmpty(r) ==
    IF r = Raises THEN "raise"
    ELSE IF r.error THEN "error"
    ELSE "ok"

FetchStep(r) ==
    IF r = Raises THEN "raise"
    ELSE IF r.error THEN "error"
    ELSE IF r.markdown = "" THEN "empty"
    ELSE "ok"

Min(a, b) == IF a < b THEN a ELSE b

\* `return {...}`: extract_document hands its result to main
Return(r) ==
    /\ result' = r
    /\ pc' = "output"

Upload ==
    /\ pc = "upload"
    /\ stages' = Append(stages, "upload")
    /\ \E r \in UploadResponses \cup {Raises} :
          /\ upload_response' = r
          /\ CASE UploadStep(r) = "raise" -> Return(FailureResult("exception"))
               [] UploadStep(r) = "error" ->
                      Return(FailureResult("Upload failed"))
               [] UploadStep(r) = "noid" ->
                      Return(FailureResult(
                          "Failed to get job ID from upload response"))
               [] OTHER -> pc' = "poll" /\ result' = result
    /\ UNCHANGED <<mvars, evars, dvars, nvars, envvars, diagnostics, exitCode, constructed,
                   reference_data, nPolls, status_response, result_response,
                   structured_data, matched_data>>

\* one pass of the `while True:` loop, its time.sleep(5) included
Poll(r) ==
    /\ pc = "poll"
    /\ stages' = IF nPolls = 0 THEN Append(stages, "poll") ELSE stages
    /\ nPolls' = Min(nPolls + 1, MaxPolls)
    /\ status_response' = r
    /\ CASE PollStep(r) = "raise" -> Return(FailureResult("exception"))
         [] PollStep(r) = "error" ->
                Return(FailureResult("Status check failed"))
         [] PollStep(r) = "failed" ->
                Return(FailureResult("Job processing failed"))
         [] PollStep(r) = "break" -> pc' = "fetch" /\ result' = result
         [] OTHER -> pc' = "poll" /\ result' = result
    /\ UNCHANGED <<mvars, evars, dvars, nvars, envvars, diagnostics, exitCode, constructed,
                   reference_data, upload_response, result_response,
                   structured_data, matched_data>>

\* the status service's answers: an error, SUCCESS or FAILED, or any other
EndingResponses ==
    {Raises} \cup {x \in StatusResponses :
                      x.error \/ x.status \in {"SUCCESS", "FAILED"}}
WaitingResponses == StatusResponses \ EndingResponses

PollEnds == \E r \in EndingResponses : Poll(r)
PollAgain == \E r \in WaitingResponses : Poll(r)

Fetch ==
    /\ pc = "fetch"
    /\ stages' = Append(stages, "fetch")
    /\ \E r \in ResultResponses \cup {Raises} :
          /\ result_response' = r
          /\ CASE FetchStep(r) = "raise" -> Return(FailureResult("exception"))
               [] FetchStep(r) = "error" ->
                      Return(FailureResult("Result retrieval failed"))
               [] FetchStep(r) = "empty" ->
                      Return(FailureResult("No markdown content received"))
               [] OTHER -> pc' = "structured" /\ result' = result
    /\ UNCHANGED <<mvars, evars, dvars, nvars, envvars, diagnostics, exitCode, constructed,
                   reference_data, nPolls, upload_response, status_response,
                   structured_data, matched_data>>

\* the payloads the generator's parsed answer is drawn from
PipePhysicians ==
    {Absent, [first_name |-> <<"a">>, last_name |-> <<"b">>],
     [first_name |-> Null, last_name |-> <<"b">>]}
PipeFacilities ==
    {Absent, [facility_name |-> <<"A">>], [facility_name |-> Null]}
PipeLabItems ==
    {[name |-> <<"a">>, test_type |-> <<"b">>],
     [name |-> Null, test_type |-> Missing]}
PipeLabReports ==
    {LabAbsent, LabScalar} \cup {LabList(l) : l \in SeqsUpTo(PipeLabItems, MaxLab)}
Payloads ==
    [physician_info : PipePhysicians, medical_facility : PipeFacilities,
     lab_reports : PipeLabReports]

\* _extract_structured_data: every exception of the chain is caught there
StructuredOutcomes ==
    {[status |-> FALSE, message |-> "exception", data |-> None]}
    \cup {[status |-> TRUE, message |-> "Structured extraction completed",
           data |-> d] : d \in Payloads}

Structured ==
    /\ pc = "structured"
    /\ stages' = Append(stages, "structured")
    /\ \E sd \in StructuredOutcomes :
          /\ structured_data' = sd
          /\ IF ~sd.status THEN Return(sd)
             ELSE pc' = "matching" /\ result' = result
    /\ UNCHANGED <<mvars, evars, dvars, nvars, envvars, diagnostics, exitCode, constructed,
                   reference_data, nPolls, upload_response, status_response,
                   result_response, matched_data>>

Matching ==
    /\ pc = "matching"
    /\ stages' = Append(stages, "matching")
    /\ \E embed \in EmbedOutcomes(openaiKey) :
          matched_data' =
              perform_matching(structured_data.data, reference_data, embed)
    /\ Return(SuccessResult(result_response.markdown, structured_data.data,
                            matched_data'))
    /\ UNCHANGED <<mvars, evars, dvars, nvars, envvars, diagnostics, exitCode, constructed,
                   reference_data, nPolls, upload_response, status_response,
                   result_response, structured_data>>

----------------------------------------------------------------------------
(* main *)

\* lines 753-765: the two checks made before any work starts
MainCheckKeyOnly(exists, key) ==
    IF ~key THEN "Missing required environment variables" ELSE "ok"

MainCheck(exists, key) ==
    IF ~exists THEN "File not found"
    ELSE IF ~key THEN "Missing required environment variables"
    ELSE "ok"

Exit(code) ==
    /\ exitCode' = code
    /\ pc' = "exited"

MainStart ==
    /\ pc = "main"
    /\ IF MainCheck(fileExists, llamaKey) = "ok"
       THEN /\ pc' = "construct"
            /\ UNCHANGED <<diagnostics, exitCode>>
       ELSE /\ diagnostics' =
                   Append(diagnostics, MainCheck(fileExists, llamaKey))
            /\ Exit(1)
    /\ UNCHANGED <<mvars, evars, dvars, nvars, envvars, constructed, reference_data, docvars>>

\* the tables static/ocr_data.json may hold; NoRefs when it cannot be read
LoadedRefs ==
    [doctors |-> WithIds(<<[doctorName |-> <<"a">>,
                            doctorLastName |-> <<"B">>]>>),
     institutions |-> WithIds(<<[displayName |-> <<"a", "b">>,
                                 value |-> <<"a">>]>>),
     sample_lab_tests |-> WithIds(<<[parameter |-> <<"a">>,
                                     test_type |-> <<"B">>],
                                    [parameter |-> <<"a", "b">>,
                                     test_type |-> <<"a">>]>>)]
PipeRefs == {NoRefs, LoadedRefs}

\* StandaloneLlamaParseExtractor(), inside main's try
Construct ==
    /\ pc = "construct"
    /\ constructed' = TRUE
    /\ \/ /\ reference_data' \in PipeRefs
          /\ pc' = "upload"
          /\ UNCHANGED <<diagnostics, exitCode>>
       \/ /\ diagnostics' = Append(diagnostics, "Error initializing extractor")
          /\ Exit(1)
          /\ UNCHANGED reference_data
    /\ UNCHANGED <<mvars, evars, dvars, nvars, envvars, docvars>>

\* lines 782-798: report the result and exit
Output ==
    /\ pc = "output"
    /\ Exit(IF result.status THEN 0 ELSE 1)
    /\ UNCHANGED <<mvars, evars, dvars, nvars, envvars, diagnostics, constructed, reference_data,
                   docvars>>

Init ==
    /\ MatchIdle
    /\ ExperimentIdle
    /\ DocstrangeIdle
    /\ NormalizeIdle
    /\ pc = "main"
    /\ fileExists \in BOOLEAN
    /\ llamaKey \in BOOLEAN
    /\ openaiKey \in BOOLEAN
    /\ diagnostics = <<>>
    /\ exitCode = -1
    /\ constructed = FALSE
    /\ reference_data = NoRefs
    /\ stages = <<>>
    /\ nPolls = 0
    /\ upload_response = None
    /\ status_response = None
    /\ result_response = None
    /\ structured_data = None
    /\ matched_data = None
    /\ result = None

Next ==
    \/ MainStart
    \/ Construct
    \/ Upload
    \/ PollEnds
    \/ PollAgain
    \/ Fetch
    \/ Structured
    \/ Matching
    \/ Output

Spec == Init /\ [][Next]_vars

\* every external call returns, and some poll ends the waiting
FairSpec ==
    /\ Spec
    /\ WF_vars(MainStart \/ Construct \/ Upload \/ Fetch \/ Structured
               \/ Matching \/ Output)
    /\ WF_vars(PollEnds)

----------------------------------------------------------------------------
(* Properties of extract_document and main *)

StageOrder == <<"upload", "poll", "fetch", "structured", "matching">>

IsPrefix(s, t) == Len(s) <= Len(t) /\ SubSeq(t, 1, Len(s)) = s

Entered(stage) == \E i \in 1..Len(stages) : stages[i] = stage
LastEntered(stage) == stages # <<>> /\ stages[Len(stages)] = stage

Returned == pc \in {"output", "exited"} /\ stages # <<>>

\* what each stage observed, read from the responses themselves
UploadSucceeded ==
    /\ upload_response \in UploadResponses
    /\ ~upload_response.error
    /\ upload_response.id # ""
StatusIs(st) ==
    /\ status_response \in StatusResponses
    /\ ~status_response.error
    /\ status_response.status = st
StatusError ==
    \/ status_response = Raises
    \/ status_response \in StatusResponses /\ status_response.error
FetchSucceeded ==
    /\ result_response \in ResultResponses
    /\ ~result_response.error
    /\ result_response.markdown # ""
StructuredSucceeded ==
    /\ structured_data \in StructuredOutcomes
    /\ structured_data.status

UploadFailed == Entered("upload") /\ ~UploadSucceeded
PollFailed == Entered("poll") /\ (StatusError \/ StatusIs("FAILED"))
FetchFailed == Entered("fetch") /\ ~FetchSucceeded
StructuredFailed == Entered("structured") /\ ~StructuredSucceeded

\* C1: extract_document enters its stages in the order upload, polling,
\* fetch, structured extraction, matching; a stage is entered only if every
\* earlier stage succeeded, and after the failure of a stage no later stage
\* is entered and a result with status false is returned.
C1_StagesInOrderStopAtFirstFailure ==
    /\ IsPrefix(stages, StageOrder)
    /\ Entered("poll") => UploadSucceeded
    /\ Entered("fetch") => StatusIs("SUCCESS")
    /\ Entered("structured") => FetchSucceeded
    /\ Entered("matching") => StructuredSucceeded
    /\ UploadFailed => LastEntered("upload") /\ Returned /\ ~result.status
    /\ PollFailed => LastEntered("poll") /\ Returned /\ ~result.status
    /\ FetchFailed => LastEntered("fetch") /\ Returned /\ ~result.status
    /\ StructuredFailed =>
           LastEntered("structured") /\ Returned /\ ~result.status

C1_Witness ==
    /\ pc = "exited"
    /\ stages = <<"upload", "poll", "fetch">>
    /\ FetchFailed
    /\ nPolls >= 2
    /\ exitCode = 1

\* the matching stage reported a failure of some kind
MatchingFailedSomewhere ==
    \/ "error" \in DOMAIN matched_data
    \/ /\ "physician_matching" \in DOMAIN matched_data
       /\ \/ /\ matched_data.physician_matching # None
             /\ ~matched_data.physician_matching.status
          \/ /\ matched_data.facility_matching # None
             /\ ~matched_data.facility_matching.status
          \/ \E i \in 1..Len(matched_data.lab_report_matching) :
                ~matched_data.lab_report_matching[i].status

\* C2: once structured extraction has succeeded, extract_document returns a
\* result with status true that carries the output of the matching stage,
\* whether that output holds matcher failures or is the error object of
\* _perform_matching.
C2_MatchingNeverAborts ==
    (Returned /\ StructuredSucceeded) =>
        /\ result.status
        /\ Entered("matching")
        /\ result.data.matched_results = matched_data
        /\ \E e \in EmbedOutcomes(openaiKey) :
              matched_data =
                  perform_matching(structured_data.data, reference_data, e)

C2_Witness ==
    /\ Returned /\ StructuredSucceeded
    /\ result.status
    /\ "error" \in DOMAIN result.data.matched_results

C2_WitnessMatcherFailure ==
    /\ Returned /\ StructuredSucceeded
    /\ result.status
    /\ "error" \notin DOMAIN matched_data
    /\ MatchingFailedSomewhere

\* C3: a result with status true bundles exactly the fetched markdown, the
\* structured payload and the matching results, and is returned only after a
\* SUCCESS status and non-empty markdown were observed; a result with status
\* false has data none and a message.
C3_ResultShape ==
    Returned =>
        /\ result.status =>
              /\ DOMAIN result.data =
                     {"raw_markdown", "structured_extraction",
                      "matched_results"}
              /\ result.data.raw_markdown = result_response.markdown
              /\ result.data.structured_extraction = structured_data.data
              /\ result.data.matched_results = matched_data
              /\ StatusIs("SUCCESS")
              /\ FetchSucceeded
              /\ result.data.raw_markdown # ""
        /\ ~result.status =>
              /\ result.data = None
              /\ "message" \in DOMAIN result

C3_Witness ==
    /\ Returned
    /\ result.status
    /\ result.data.raw_markdown = "md"
    /\ "lab_report_matching" \in DOMAIN result.data.matched_results
    /\ Len(result.data.matched_results.lab_report_matching) = 2

C3_WitnessFailure ==
    /\ Returned
    /\ ~result.status
    /\ StatusIs("FAILED")

\* the poll loop was left in this step
LeftPollLoop == pc = "poll" /\ pc' # "poll"

\* C4 as stated: the poll loop is left only when a poll reports SUCCESS or
\* FAILED.
C4_LeftOnlyOnSuccessOrFailed ==
    [][LeftPollLoop =>
          /\ status_response' \in StatusResponses
          /\ ~status_response'.error
          /\ status_response'.status \in {"SUCCESS", "FAILED"}]_vars

\* C4 as amended: the poll loop is left only when a poll reports SUCCESS or
\* FAILED, or when the status check yields an error response or a response
\* whose handling raises; no count of polls and no other status ends it.
C4_LeftOnlyOnSuccessFailedOrError ==
    [][LeftPollLoop =>
          \/ status_response' = Raises
          \/ /\ status_response' \in StatusResponses
             /\ \/ status_response'.error
                \/ status_response'.status \in {"SUCCESS", "FAILED"}]_vars

C4_Witness ==
    /\ pc = "output"
    /\ LastEntered("poll")
    /\ nPolls = MaxPolls
    /\ status_response \in StatusResponses
    /\ status_response.error
    /\ status_response.status = "PENDING"

\* C5: polling has no bound: a poll that reports a status other than SUCCESS
\* or FAILED, and no error, leaves extract_document polling, however many
\* polls came before; and if some poll eventually ends the waiting and every
\* other external call returns, extract_document eventually returns.
C5_UnboundedPollingFairTermination ==
    /\ [][(pc = "poll" /\ status_response' \in WaitingResponses) =>
             (pc' = "poll" /\ result' = None)]_vars
    /\ (pc = "upload") ~> (pc = "output")

C5_Witness ==
    /\ pc = "output"
    /\ nPolls = MaxPolls
    /\ StatusIs("SUCCESS")
    /\ result.status

\* C6: when the input file does not exist or LLAMA_CLOUD_API_KEY is missing,
\* main exits with a non-zero code after a diagnostic message, before the
\* extractor is constructed and before any external call.
C6_EagerConfigurationCheck ==
    (~fileExists \/ ~llamaKey) =>
        /\ ~constructed
        /\ stages = <<>>
        /\ nPolls = 0
        /\ pc \in {"main", "exited"}
        /\ pc = "exited" => exitCode = 1 /\ Len(diagnostics) = 1

C6_Witness ==
    /\ pc = "exited"
    /\ fileExists /\ ~llamaKey
    /\ diagnostics = <<"Missing required environment variables">>

C6_WitnessNoFile ==
    /\ pc = "exited"
    /\ ~fileExists
    /\ diagnostics = <<"File not found">>

\* _perform_matching returned its results, not its error object
MatchingReturned ==
    /\ Returned /\ Entered("matching")
    /\ "error" \notin DOMAIN matched_data

\* the line items of the extracted payload
LabItems == structured_data.data.lab_reports.items

\* C21: _perform_matching calls the physician matcher and the facility
\* matcher at most once each and the lab-report matcher once for every line
\* item; a category whose extracted field is absent is skipped: its result
\* stays none, and the lab list stays empty when lab_reports is absent or
\* empty.
C21_MatchersRunOncePerPresentEntity ==
    MatchingReturned =>
        /\ IF Truthy(structured_data.data.physician_info)
           THEN \E e \in EmbedOutcomes(openaiKey) :
                   matched_data.physician_matching =
                       match_physician(structured_data.data.physician_info,
                                       reference_data.doctors, e)
           ELSE matched_data.physician_matching = None
        /\ IF Truthy(structured_data.data.medical_facility)
           THEN matched_data.facility_matching =
                    match_facility(structured_data.data.medical_facility,
                                   reference_data.institutions)
           ELSE matched_data.facility_matching = None
        /\ Len(matched_data.lab_report_matching) = Len(LabItems)
        /\ LabItems = <<>> => matched_data.lab_report_matching = <<>>

\* the physician was absent and skipped, the facility and two line items
\* were matched
C21_Witness ==
    /\ MatchingReturned
    /\ ~Truthy(structured_data.data.physician_info)
    /\ matched_data.physician_matching = None
    /\ Truthy(structured_data.data.medical_facility)
    /\ matched_data.facility_matching # None
    /\ Len(LabItems) = 2
    /\ Len(matched_data.lab_report_matching) = 2

C21_WitnessLabAbsent ==
    /\ MatchingReturned
    /\ structured_data.data.lab_reports = LabAbsent
    /\ matched_data.lab_report_matching = <<>>
    /\ matched_data.physician_matching # None

\* C23: when _perform_matching returns its results, lab_report_matching
\* holds one entry for every line item, in the order of the line items, each
\* the outcome of the lab-report matcher on that item, be it a Match Result
\* or a failure outcome: no line item is dropped.
C23_OneLabEntryPerLineItem ==
    MatchingReturned =>
        /\ Len(matched_data.lab_report_matching) = Len(LabItems)
        /\ \A i \in 1..Len(LabItems) :
              LET entry == matched_data.lab_report_matching[i]
              IN  /\ entry = match_lab_report(LabItems[i],
                                              reference_data.sample_lab_tests)
                  /\ entry.status => entry.original_parameter = LabItems[i]

\* of two different line items the first gave a failure outcome and the
\* second a Match Result, and both entries are there, in that order
C23_Witness ==
    /\ MatchingReturned
    /\ Len(LabItems) = 2
    /\ LabItems[1] # LabItems[2]
    /\ Len(matched_data.lab_report_matching) = 2
    /\ ~matched_data.lab_report_matching[1].status
    /\ matched_data.lab_report_matching[2].status
    /\ matched_data.lab_report_matching[2].original_parameter = LabItems[2]

C23_WitnessNoReferenceData ==
    /\ MatchingReturned
    /\ reference_data = NoRefs
    /\ Len(LabItems) = 2
    /\ Len(matched_data.lab_report_matching) = 2
    /\ \A i \in 1..2 : ~matched_data.lab_report_matching[i].status

\* a compared field of the entity is present and null
HasNull(info, fields) ==
    Truthy(info) /\ \E f \in fields : info[f] = Null

PhysicianFields == {"first_name", "last_name"}
FacilityFields == {"facility_name"}
LabFields == {"name", "test_type"}

\* status false and a message, and nothing else
IsFailureOutcome(m) == DOMAIN m = {"status", "message"} /\ ~m.status

\* C25: when a compared field of an extracted entity is present with a null
\* value and the reference list is non-empty, the matcher returns a failure
\* outcome (status false and a message), not a Match Result, and does not
\* treat the field as empty; the failure stays with that entity: the other
\* categories and the other line items are matched as they are without it,
\* and the document result keeps status true.
C25_NullFieldFailsThatEntityOnly ==
    (Returned /\ Entered("matching")) =>
        /\ result.status
        /\ MatchingReturned =>
              /\ (/\ HasNull(structured_data.data.physician_info,
                             PhysicianFields)
                  /\ reference_data.doctors # <<>>) =>
                     IsFailureOutcome(matched_data.physician_matching)
              /\ (/\ HasNull(structured_data.data.medical_facility,
                             FacilityFields)
                  /\ reference_data.institutions # <<>>) =>
                     IsFailureOutcome(matched_data.facility_matching)
              /\ (/\ Truthy(structured_data.data.medical_facility)
                  /\ ~HasNull(structured_data.data.medical_facility,
                              FacilityFields)
                  /\ reference_data.institutions # <<>>) =>
                     matched_data.facility_matching.status
              /\ \A i \in 1..Len(LabItems) :
                    reference_data.sample_lab_tests # <<>> =>
                        IF HasNull(LabItems[i], LabFields)
                        THEN IsFailureOutcome(
                                 matched_data.lab_report_matching[i])
                        ELSE matched_data.lab_report_matching[i].status

\* the physician's first name is null and the retriever was built: the
\* physician outcome is the failure of the null field, the facility is
\* matched, of the two line items the one with a null name failed and the
\* other is matched, and the document result has status true
C25_Witness ==
    /\ MatchingReturned
    /\ result.status
    /\ structured_data.data.physician_info # Absent
    /\ structured_data.data.physician_info.first_name = Null
    /\ IsFailureOutcome(matched_data.physician_matching)
    /\ matched_data.physician_matching.message = "AttributeError"
    /\ matched_data.facility_matching # None
    /\ matched_data.facility_matching.status
    /\ Len(LabItems) = 2
    /\ HasNull(LabItems[1], LabFields)
    /\ IsFailureOutcome(matched_data.lab_report_matching[1])
    /\ matched_data.lab_report_matching[2].status

C25_WitnessFacilityNull ==
    /\ MatchingReturned
    /\ result.status
    /\ HasNull(structured_data.data.medical_facility, FacilityFields)
    /\ IsFailureOutcome(matched_data.facility_matching)
    /\ matched_data.physician_matching # None
    /\ matched_data.physician_matching.status

\* a poll is made and the status service answers with an object
Polled == pc = "poll" /\ status_response' \in StatusResponses

\* how the loop goes on after a poll, told by the status of the answer
HandledByStatus ==
    /\ status_response'.status = "SUCCESS" =>
          pc' = "fetch" /\ result' = None
    /\ status_response'.status = "FAILED" =>
          /\ pc' = "output"
          /\ result' = FailureResult("Job processing failed")
    /\ status_response'.status \notin {"SUCCESS", "FAILED"} =>
          pc' = "poll" /\ result' = None

C18_WitnessAbsentStatus ==
    /\ pc = "poll"
    /\ nPolls = MaxPolls
    /\ StatusIs("absent")
    /\ result = None

----------------------------------------------------------------------------
(* The matchers applied to one extracted entity *)

MatchInit ==
    /\ PipeIdle
    /\ ExperimentIdle
    /\ DocstrangeIdle
    /\ NormalizeIdle
    /\ mpc = "ready"
    /\ mResult = None
    /\ \/ /\ mKind = "facility"
          /\ mInfo \in FacilityInfos
          /\ mEmbed \in {"ok", "nokey"}
          /\ \E rows \in SeqsUpTo(InstitutionRows, MaxRefs) :
                mRefs = [NoRefs EXCEPT !.institutions = WithIds(rows)]
       \/ /\ mKind = "lab"
          /\ mInfo \in LabReports
          /\ mEmbed \in {"ok", "nokey"}
          /\ \E rows \in SeqsUpTo(LabTestRows, MaxRefs) :
                mRefs = [NoRefs EXCEPT !.sample_lab_tests = WithIds(rows)]
       \/ /\ mKind = "physician"
          /\ mInfo \in PhysicianInfos
          /\ mEmbed \in {"ok", "nokey", "fail"}
          /\ \E rows \in SeqsUpTo(DoctorRows, MaxRefs) :
                mRefs = [NoRefs EXCEPT !.doctors = WithIds(rows)]

MatchPhysician ==
    /\ mpc = "ready" /\ mKind = "physician"
    /\ mResult' = match_physician(mInfo, mRefs.doctors, mEmbed)
    /\ mpc' = "done"
    /\ UNCHANGED <<mKind, mInfo, mRefs, mEmbed, pvars, evars, dvars, nvars>>

MatchFacility ==
    /\ mpc = "ready" /\ mKind = "facility"
    /\ mResult' = match_facility(mInfo, mRefs.institutions)
    /\ mpc' = "done"
    /\ UNCHANGED <<mKind, mInfo, mRefs, mEmbed, pvars, evars, dvars, nvars>>

MatchLabReport ==
    /\ mpc = "ready" /\ mKind = "lab"
    /\ mResult' = match_lab_report(mInfo, mRefs.sample_lab_tests)
    /\ mpc' = "done"
    /\ UNCHANGED <<mKind, mInfo, mRefs, mEmbed, pvars, evars, dvars, nvars>>

MatchNext == MatchPhysician \/ MatchFacility \/ MatchLabReport

SpecMatch == MatchInit /\ [][MatchNext]_vars

----------------------------------------------------------------------------
(* experiment_direct_json_vs_xml.py: the helpers.  A text is a sequence of *)
(* tokens: a code fence, a language tag, a wrapper tag, a newline, a blank, or a  *)
(* piece of JSON.                                                           *)

RUNS_PER_PROMPT == 3
\* in thousandths of a dollar for a thousand tokens
INPUT_COST_PER_1K == 3
OUTPUT_COST_PER_1K == 15

\* the three backquotes that open or close a code block
Fence == "FENCE"
LangTags == {"json", "JSON"}
OpenTags == {"<response>", "<json>", "<RESPONSE>"}
CloseTags == {"</response>", "</json>", "</RESPONSE>"}
Whitespace == {" ", "\n"}

\* str.strip()
RECURSIVE LStrip(_)
LStrip(t) ==
    IF t # <<>> /\ Head(t) \in Whitespace THEN LStrip(Tail(t)) ELSE t
RECURSIVE RStrip(_)
RStrip(t) ==
    IF t # <<>> /\ t[Len(t)] \in Whitespace
    THEN RStrip(SubSeq(t, 1, Len(t) - 1)) ELSE t
Strip(t) == RStrip(LStrip(t))

\* re.sub of line 175, flags re.I | re.M: every fence that
\* starts a line goes, with the language tag that follows it
RemoveLeadingFenceOnly(t, i) ==
    IF t # <<>> /\ t[1] = Fence
    THEN IF Len(t) > 1 /\ t[2] \in LangTags
         THEN SubSeq(t, 3, Len(t)) ELSE SubSeq(t, 2, Len(t))
    ELSE t
RECURSIVE RemoveOpeningFences(_, _)
RemoveOpeningFences(t, i) ==
    IF i > Len(t) THEN <<>>
    ELSE IF t[i] = Fence /\ (i = 1 \/ t[i - 1] = "\n")
         THEN IF i < Len(t) /\ t[i + 1] \in LangTags
              THEN RemoveOpeningFences(t, i + 2)
              ELSE RemoveOpeningFences(t, i + 1)
         ELSE <<t[i]>> \o RemoveOpeningFences(t, i + 1)

\* re.sub of line 176, flag re.M: every fence that ends a line goes
RECURSIVE RemoveClosingFences(_, _)
RemoveClosingFences(t, i) ==
    IF i > Len(t) THEN <<>>
    ELSE IF t[i] = Fence /\ (i = Len(t) \/ t[i + 1] = "\n")
         THEN RemoveClosingFences(t, i + 1)
         ELSE <<t[i]>> \o RemoveClosingFences(t, i + 1)

\* re.search(r"<(?:response|json)>(.*?)</(?:response|json)>", t, re.S | re.I):
\* the first opening tag and the first closing tag after it, 0 when none
FirstIn(t, S, from) ==
    IF \E i \in from..Len(t) : t[i] \in S
    THEN CHOOSE i \in from..Len(t) :
             t[i] \in S /\ \A j \in from..(i - 1) : t[j] \notin S
    ELSE 0

\* the argument None, and the exception None.strip() raises
NoneText == <<"None">>
AttributeError == <<"AttributeError">>

\* `if not text: return text.strip()` holds for "" and for None alike
extract_json_from_xml_or_markdown(text) ==
    IF text = NoneText THEN AttributeError
    ELSE IF text = <<>> THEN <<>>
    ELSE LET t1 == RemoveOpeningFences(Strip(text), 1)
             t2 == RemoveClosingFences(Strip(t1), 1)
             open == FirstIn(t2, OpenTags, 1)
             close == IF open = 0 THEN 0 ELSE FirstIn(t2, CloseTags, open + 1)
         IN  IF close # 0 THEN Strip(SubSeq(t2, open + 1, close - 1))
             ELSE Strip(t2)

\* json.loads on the JSON made of "[", "]", "," and the scalar "1"; the
\* token "[[[..." is an array nested deeper than the decoder recurses
SkipWs(t, i) ==
    IF \E j \in i..Len(t) : t[j] \notin Whitespace
    THEN CHOOSE j \in i..Len(t) :
             t[j] \notin Whitespace /\ \A k \in i..(j - 1) : t[k] \in Whitespace
    ELSE Len(t) + 1

\* the index after the value that starts at i; 0: malformed; -1: too deep
RECURSIVE ParseValue(_, _)
RECURSIVE ParseElements(_, _)
ParseValue(t, i) ==
    LET j == SkipWs(t, i)
    IN  IF j > Len(t) THEN 0
        ELSE IF t[j] = "1" THEN j + 1
        ELSE IF t[j] = "[[[..." THEN -1
        ELSE IF t[j] = "["
             THEN LET k == SkipWs(t, j + 1)
                  IN  IF k <= Len(t) /\ t[k] = "]" THEN k + 1
                      ELSE ParseElements(t, k)
        ELSE 0
ParseElements(t, i) ==
    LET v == ParseValue(t, i)
    IN  IF v <= 0 THEN v
        ELSE LET j == SkipWs(t, v)
             IN  IF j > Len(t) THEN 0
                 ELSE IF t[j] = "," THEN ParseElements(t, j + 1)
                 ELSE IF t[j] = "]" THEN j + 1
                 ELSE 0

json_loads(t) ==
    LET v == ParseValue(t, 1)
    IN  IF v = -1 THEN "RecursionError"
        ELSE IF v > 0 /\ SkipWs(t, v) > Len(t) THEN "ok"
        ELSE "JSONDecodeError"

try_parse_json_accepts_all(t) == "True"

\* try_parse_json catches json.JSONDecodeError only
try_parse_json(t) ==
    CASE json_loads(t) = "ok" -> "True"
      [] json_loads(t) = "JSONDecodeError" -> "False"
      [] OTHER -> "raise"

----------------------------------------------------------------------------
(* experiment_direct_json_vs_xml.py: the experiment loop *)

\* the prompts of PROMPTS that are run
MaxPrompts == 1
Methods == <<"plain_json", "xml_wrapped">>

\* call_model: it raises, or hands back the text and the token counts
Raised == [raised |-> TRUE]
Response(text) ==
    [raised |-> FALSE, text |-> text, in_toks |-> 10, out_toks |-> Len(text)]

\* what the model answers under each method
CallOutcomes(m) ==
    IF m = "plain_json"
    THEN {Raised,
          Response(<<Fence, "json", "\n", "[", "1", "]", "\n", Fence>>),
          Response(<<"[[[...">>)}
    ELSE {Raised, Response(<<"<response>", "[", "1", "</response>">>)}

\* line 194, in millionths of a dollar
Cost(in_toks, out_toks) ==
    in_toks * INPUT_COST_PER_1K + out_toks * OUTPUT_COST_PER_1K

\* lines 236-261: the body of one repetition, from the call's outcome to the
\* detail record; kind "crash" is an exception that leaves the loop
RepetitionNoTry(n, outcome) ==
    IF outcome.raised THEN [kind |-> "crash"]
    ELSE LET json_text == extract_json_from_xml_or_markdown(outcome.text)
             parsed == try_parse_json(json_text)
         IN  IF parsed = "raise" THEN [kind |-> "crash"]
             ELSE [kind |-> "full",
                   detail |->
                       [run |-> n, raw_output |-> outcome.text,
                        json_extracted |-> json_text,
                        parsed_ok |-> (parsed = "True"),
                        input_tokens |-> outcome.in_toks,
                        output_tokens |-> outcome.out_toks,
                        cost |-> Cost(outcome.in_toks, outcome.out_toks)]]

Repetition(n, outcome) ==
    IF outcome.raised
    THEN [kind |-> "error", detail |-> [run |-> n, error |-> "call_model"]]
    ELSE LET json_text == extract_json_from_xml_or_markdown(outcome.text)
             parsed == try_parse_json(json_text)
         IN  IF parsed = "raise"
             THEN [kind |-> "error",
                   detail |-> [run |-> n, error |-> "RecursionError"]]
             ELSE [kind |-> "full",
                   detail |->
                       [run |-> n, raw_output |-> outcome.text,
                        json_extracted |-> json_text,
                        parsed_ok |-> (parsed = "True"),
                        input_tokens |-> outcome.in_toks,
                        output_tokens |-> outcome.out_toks,
                        cost |-> Cost(outcome.in_toks, outcome.out_toks)]]

\* round(total / RUNS_PER_PROMPT, digits), as a count of the last digit's
\* unit: the nearest integer to scaled / d, ties to the even one
RoundDiv(scaled, d) ==
    LET q == scaled \div d
        r == scaled % d
    IN  IF 2 * r > d \/ (2 * r = d /\ q % 2 = 1) THEN q + 1 ELSE q

\* one pass of the loop over range(RUNS_PER_PROMPT), time.sleep(1) included
RunOnce ==
    /\ epc = "run"
    /\ \E outcome \in CallOutcomes(method) :
          LET rep == Repetition(run + 1, outcome)
          IN  /\ calls' = Append(calls, outcome)
              /\ IF rep.kind = "crash"
                 THEN /\ epc' = "crashed"
                      /\ UNCHANGED <<run, successes, total_input_tokens,
                                     total_output_tokens, total_cost,
                                     detailed_runs>>
                 ELSE /\ detailed_runs' = Append(detailed_runs, rep.detail)
                      /\ run' = run + 1
                      /\ epc' = IF run + 1 = RUNS_PER_PROMPT
                                THEN "summarize" ELSE "run"
                      /\ IF rep.kind = "full"
                         THEN /\ successes' =
                                     IF rep.detail.parsed_ok
                                     THEN successes + 1 ELSE successes
                              /\ total_input_tokens' =
                                     total_input_tokens
                                     + rep.detail.input_tokens
                              /\ total_output_tokens' =
                                     total_output_tokens
                                     + rep.detail.output_tokens
                              /\ total_cost' = total_cost + rep.detail.cost
                         ELSE UNCHANGED <<successes, total_input_tokens,
                                          total_output_tokens, total_cost>>
    /\ UNCHANGED <<test, method, results, saved, history>>
    /\ UNCHANGED <<mvars, pvars, dvars, nvars>>

\* lines 265-276, and the step to the next method or prompt
Summarize ==
    /\ epc = "summarize"
    /\ results' = Append(results,
           [prompt_name |-> test, method |-> method,
            successes |-> successes, total_runs |-> RUNS_PER_PROMPT,
            avg_input_tokens |->
                RoundDiv(10 * total_input_tokens, RUNS_PER_PROMPT),
            avg_output_tokens |->
                RoundDiv(10 * total_output_tokens, RUNS_PER_PROMPT),
            avg_cost |-> RoundDiv(total_cost, RUNS_PER_PROMPT),
            details |-> detailed_runs])
    /\ history' = Append(history, calls)
    /\ calls' = <<>>
    /\ run' = 0
    /\ successes' = 0
    /\ total_input_tokens' = 0
    /\ total_output_tokens' = 0
    /\ total_cost' = 0
    /\ detailed_runs' = <<>>
    /\ IF method = Methods[1]
       THEN method' = Methods[2] /\ test' = test /\ epc' = "run"
       ELSE IF test < MaxPrompts
            THEN method' = Methods[1] /\ test' = test + 1 /\ epc' = "run"
            ELSE method' = method /\ test' = test /\ epc' = "save"
    /\ UNCHANGED saved
    /\ UNCHANGED <<mvars, pvars, dvars, nvars>>

\* lines 279-294: the report is written and the summary printed
Save ==
    /\ epc = "save"
    /\ saved' = TRUE
    /\ epc' = "done"
    /\ UNCHANGED <<test, method, run, successes, total_input_tokens,
                   total_output_tokens, total_cost, detailed_runs, results,
                   calls, history>>
    /\ UNCHANGED <<mvars, pvars, dvars, nvars>>

ExperimentInit ==
    /\ MatchIdle /\ PipeIdle /\ DocstrangeIdle /\ NormalizeIdle
    /\ epc = "run"
    /\ test = 1
    /\ method = Methods[1]
    /\ run = 0
    /\ successes = 0
    /\ total_input_tokens = 0
    /\ total_output_tokens = 0
    /\ total_cost = 0
    /\ detailed_runs = <<>>
    /\ results = <<>>
    /\ saved = FALSE
    /\ calls = <<>>
    /\ history = <<>>

ExperimentNext == RunOnce \/ Summarize \/ Save

SpecExperiment == ExperimentInit /\ [][ExperimentNext]_vars

----------------------------------------------------------------------------
(* test-docstrange.py *)

\* the most files the input directory holds
MaxFiles == 3

FileNames ==
    {[base |-> "a", ext |-> ".pdf"], [base |-> "b", ext |-> ".pdf"],
     [base |-> "a", ext |-> ".png"], [base |-> "c", ext |-> ".docx"]}

\* os.listdir: every name once, in any order
Listings ==
    {l \in SeqsUpTo(FileNames, MaxFiles) :
        \A i, j \in 1..Len(l) : l[i] = l[j] => i = j}

\* lines 25-26: the output path of a file
OutputPath(file) == <<"nanonet-markdown", file.base, "_ocr.md">>

\* extractor.extract(...).extract_markdown(): the markdown, or an exception
ExtractOutcomes ==
    {Raised, [raised |-> FALSE, markdown |-> ""],
     [raised |-> FALSE, markdown |-> "# text"]}

\* lines 18-32: the body of the loop for one file; nothing catches what
\* extract or extract_markdown raises, so the exception ends the script
ProcessNext ==
    /\ dpc = "loop"
    /\ nextFile <= Len(files)
    /\ \E outcome \in ExtractOutcomes :
          IF outcome.raised
          THEN /\ dpc' = "crashed"
               /\ UNCHANGED <<nextFile, written, printed>>
          ELSE /\ written' =
                      Append(SelectSeq(written,
                                 LAMBDA w : w.path # OutputPath(files[nextFile])),
                             [path |-> OutputPath(files[nextFile]),
                              markdown |-> outcome.markdown])
               /\ printed' = Append(printed, files[nextFile])
               /\ nextFile' = nextFile + 1
               /\ dpc' = "loop"
    /\ UNCHANGED files
    /\ UNCHANGED <<mvars, pvars, evars, nvars>>

\* the listing is exhausted: the script ends normally
LoopEnds ==
    /\ dpc = "loop"
    /\ nextFile > Len(files)
    /\ dpc' = "done"
    /\ UNCHANGED <<files, nextFile, written, printed>>
    /\ UNCHANGED <<mvars, pvars, evars, nvars>>

DocstrangeInit ==
    /\ MatchIdle /\ PipeIdle /\ ExperimentIdle /\ NormalizeIdle
    /\ dpc = "loop"
    /\ files \in Listings
    /\ nextFile = 1
    /\ written = <<>>
    /\ printed = <<>>

DocstrangeNext == ProcessNext \/ LoopEnds

SpecDocstrange == DocstrangeInit /\ [][DocstrangeNext]_vars

----------------------------------------------------------------------------
(* extract_json_from_xml_or_markdown applied to a text, and to its own     *)
(* output                                                                   *)

\* the longest text made freely of the tokens
MaxText == 4
\* the longest payload put inside a fence or a wrapper tag
MaxContent == 2

\* "x" is text that is neither a marker nor blank
Tokens == {Fence, "json", "\n", " ", "<response>", "</json>", "x"}
ContentTokens == {"x", " ", "\n"}
Contents == SeqsUpTo(ContentTokens, MaxContent)

\* the opening fence marker, with or without the language tag
FenceOpens == {<<Fence>>} \cup {<<Fence, l>> : l \in LangTags}
\* a marker and the payload are on one line, or a newline parts them
Breaks == {<<>>, <<"\n">>}
Pads == {<<>>, <<" ">>, <<"\n">>}

\* the payload c between fences, between wrapper tags, between tags inside
\* fences, and between fences inside tags
Fenced(c) ==
    {p \o o \o m \o c \o n \o <<Fence>> \o q :
        p \in Pads, q \in Pads, o \in FenceOpens, m \in Breaks, n \in Breaks}
Tagged(c) ==
    {p \o <<a>> \o c \o <<b>> \o q :
        p \in Pads, q \in Pads, a \in OpenTags, b \in CloseTags}
FenceAroundTag(c) ==
    {o \o m \o <<a>> \o c \o <<b>> \o n \o <<Fence>> :
        o \in FenceOpens, m \in Breaks, n \in Breaks,
        a \in OpenTags, b \in CloseTags}
\* each tag on a line of its own, so that the opening fence starts a line
\* and the closing fence ends one
TagAroundFenceLines(c) ==
    {<<a, "\n">> \o o \o m \o c \o n \o <<Fence, "\n", b>> :
        o \in FenceOpens, m \in Breaks, n \in Breaks,
        a \in OpenTags, b \in CloseTags}
\* each tag on the line of the fence next to it
TagAroundFenceInline(c) ==
    {<<a>> \o o \o m \o c \o n \o <<Fence, b>> :
        o \in FenceOpens, m \in Breaks, n \in Breaks,
        a \in OpenTags, b \in CloseTags}

Shapes ==
    {"fenced", "tagged", "fence_around_tag", "tag_around_fence_lines",
     "tag_around_fence_inline"}

Wrapped(shape, c) ==
    CASE shape = "fenced" -> Fenced(c)
      [] shape = "tagged" -> Tagged(c)
      [] shape = "fence_around_tag" -> FenceAroundTag(c)
      [] shape = "tag_around_fence_lines" -> TagAroundFenceLines(c)
      [] OTHER -> TagAroundFenceInline(c)

\* the texts made freely of the tokens, and the argument None
FreeTexts == SeqsUpTo(Tokens, MaxText) \cup {NoneText}

Normalize ==
    /\ npc = "ready"
    /\ nOut' = extract_json_from_xml_or_markdown(nText)
    /\ npc' = "once"
    /\ UNCHANGED <<nText, nShape, nPayload, nTwice>>
    /\ UNCHANGED <<mvars, pvars, evars, dvars>>

\* the output, when there is one, is normalized again
NormalizeAgain ==
    /\ npc = "once"
    /\ nOut # AttributeError
    /\ nTwice' = extract_json_from_xml_or_markdown(nOut)
    /\ npc' = "twice"
    /\ UNCHANGED <<nText, nShape, nPayload, nOut>>
    /\ UNCHANGED <<mvars, pvars, evars, dvars>>

NormalizeInit ==
    /\ MatchIdle /\ PipeIdle /\ ExperimentIdle /\ DocstrangeIdle
    /\ npc = "ready"
    /\ \/ /\ nShape = "free"
          /\ nPayload = <<>>
          /\ nText \in FreeTexts
       \/ /\ nShape \in Shapes
          /\ nPayload \in Contents
          /\ nText \in Wrapped(nShape, nPayload)
    /\ nOut = <<>>
    /\ nTwice = <<>>

NormalizeNext == Normalize \/ NormalizeAgain

SpecNormalize == NormalizeInit /\ [][NormalizeNext]_vars

----------------------------------------------------------------------------
(* Properties of the matchers *)

\* the reference list the applied matcher scans
MList ==
    CASE mKind = "physician" -> mRefs.doctors
      [] mKind = "facility" -> mRefs.institutions
      [] OTHER -> mRefs.sample_lab_tests

\* the score the applied matcher gives, for the query info, to the i-th
\* entity of its list
MScoreOf(info, i) ==
    CASE mKind = "physician" ->
             PhysicianScore(Lower(Get(info.first_name)),
                            Lower(Get(info.last_name)), MList[i])
      [] mKind = "facility" ->
             FacilityScore(Lower(Get(info.facility_name)), MList[i])
      [] OTHER ->
             LabScore(Lower(Get(info.name)), Lower(Get(info.test_type)),
                      MList[i])

\* the same for the query the matcher was applied to
MScore(i) == MScoreOf(mInfo, i)

\* the scheme's maximum attainable score
MFull == IF mKind = "lab" THEN 3 ELSE 2

\* a field of the query equals a field of the entity, case-insensitively
SameText(q, r) == q \notin {Null, Missing} /\ Lower(q) = Lower(r)

\* every compared field of the i-th entity equals the query's field
MExact(i) ==
    CASE mKind = "physician" ->
             /\ SameText(mInfo.first_name, MList[i].doctorName)
             /\ SameText(mInfo.last_name, MList[i].doctorLastName)
      [] mKind = "facility" ->
             /\ SameText(mInfo.facility_name, MList[i].displayName)
             /\ SameText(mInfo.facility_name, MList[i].value)
      [] OTHER ->
             /\ SameText(mInfo.name, MList[i].parameter)
             /\ SameText(mInfo.test_type, MList[i].test_type)

\* the same, but for an institution only its displayName, the field that
\* alone decides the full score of the facility matcher
MSameNames(i) ==
    IF mKind = "facility"
    THEN SameText(mInfo.facility_name, MList[i].displayName)
    ELSE MExact(i)

MIndexes == 1..Len(MList)

\* the first entity of the list that attains the greatest score of the list
MEarliestMax ==
    CHOOSE i \in MIndexes :
        /\ \A j \in MIndexes : MScore(j) <= MScore(i)
        /\ \A j \in 1..(i - 1) : MScore(j) < MScore(i)

IsOne(conf) == conf.num = conf.den
IsZero(conf) == conf.num = 0

\* C9 as stated: when the list holds an entity that matches the query exactly
\* on all compared fields, the matcher returns that entity (an entity whose
\* names equal the query's), with label "Similar: Typo" and confidence 1.0,
\* wherever it stands in the list.
C9_ExactEntityReturned ==
    (mpc = "done" /\ \E i \in MIndexes : MExact(i)) =>
        /\ mResult.status
        /\ mResult.match_score = "Similar: Typo"
        /\ IsOne(mResult.confidence)
        /\ \E i \in MIndexes : MSameNames(i) /\ mResult.matched = MList[i]

\* C9 as amended: when the list holds an entity that matches the query
\* exactly, the facility and lab-report matchers return a Match Result, and
\* the physician matcher does so exactly when its retriever was built; that
\* Match Result has label "Similar: Typo" and confidence 1.0 and names the
\* earliest entity of the list that attains the full score, which is the
\* exactly matching entity when no entity before it attains the full score.
C9_ExactMatchYieldsEarliestFullScore ==
    (mpc = "done" /\ \E i \in MIndexes : MSameNames(i)) =>
        /\ mResult.status <=> (mKind = "physician" => mEmbed = "ok")
        /\ mResult.status =>
              /\ mResult.match_score = "Similar: Typo"
              /\ IsOne(mResult.confidence)
              /\ mResult.confidence.den = MFull
              /\ mResult.matched = MList[MEarliestMax]
              /\ MScore(MEarliestMax) = MFull
              /\ \A i \in MIndexes :
                    (MSameNames(i) /\ \A j \in 1..(i - 1) : MScore(j) < MFull)
                        => mResult.matched = MList[i]

C9_Witness ==
    /\ mpc = "done"
    /\ Len(MList) = 2
    /\ MExact(2) /\ ~MSameNames(1)
    /\ mResult.status
    /\ mResult.matched = MList[1]
    /\ IsOne(mResult.confidence)

C9_WitnessExactSecond ==
    /\ mpc = "done"
    /\ mKind = "lab"
    /\ Len(MList) = 2
    /\ MExact(2) /\ MScore(1) = 1
    /\ mResult.status
    /\ mResult.matched = MList[2]

\* either string contains the other
Shares(a, b) == In(a, b) \/ In(b, a)

\* no compared field of the query contains, or is contained in, the
\* corresponding field of any reference entity
MNothingShared ==
    \A i \in MIndexes :
        CASE mKind = "physician" ->
                 /\ ~Shares(Lower(Get(mInfo.first_name)),
                            Lower(MList[i].doctorName))
                 /\ ~Shares(Lower(Get(mInfo.last_name)),
                            Lower(MList[i].doctorLastName))
          [] mKind = "facility" ->
                 /\ ~Shares(Lower(Get(mInfo.facility_name)),
                            Lower(MList[i].displayName))
                 /\ ~Shares(Lower(Get(mInfo.facility_name)),
                            Lower(MList[i].value))
          [] OTHER ->
                 /\ ~Shares(Lower(Get(mInfo.name)), Lower(MList[i].parameter))
                 /\ ~Shares(Lower(Get(mInfo.test_type)),
                            Lower(MList[i].test_type))

\* C10: in every Match Result the label is "Unknown" exactly when no
\* reference entity scored above zero, and exactly then the matched entity is
\* none and the confidence is 0.0; a query none of whose fields contains or
\* is contained in a reference field yields Unknown, 0.0 and none.
C10_UnknownIffNothingScored ==
    (mpc = "done" /\ mResult.status) =>
        /\ MList # <<>>
        /\ mResult.match_score = "Unknown" <=> \A i \in MIndexes : MScore(i) = 0
        /\ mResult.match_score = "Unknown" <=> mResult.matched = None
        /\ mResult.match_score = "Unknown" <=> IsZero(mResult.confidence)
        /\ MNothingShared =>
              /\ mResult.match_score = "Unknown"
              /\ mResult.matched = None
              /\ mResult.confidence = Zero

C10_Witness ==
    /\ mpc = "done"
    /\ mKind = "physician"
    /\ Len(MList) = 2
    /\ mResult.status
    /\ mResult.match_score = "Unknown"
    /\ MNothingShared

C10_WitnessScored ==
    /\ mpc = "done"
    /\ mResult.status
    /\ mResult.match_score = "Alternative"
    /\ mResult.matched # None

\* the message of the matcher's "no reference data" outcome
MNoDataMessage ==
    CASE mKind = "physician" -> "No doctor reference data available"
      [] mKind = "facility" -> "No institution reference data available"
      [] OTHER -> "No lab test reference data available"

\* C11: a matcher applied to an empty reference list returns the failure
\* outcome "No ... reference data available" with status false, which is not
\* a Match Result: it holds no label, no confidence and no matched entity;
\* nothing is scored and nothing else is tried first, so neither a missing
\* embedding key nor a null query field changes the outcome.
C11_EmptyListGivesNoDataFailure ==
    (mpc = "done" /\ MList = <<>>) =>
        /\ mResult.status = FALSE
        /\ DOMAIN mResult = {"status", "message"}
        /\ mResult.message = MNoDataMessage

\* the physician matcher met an empty list with no embedding key and a null
\* first name
C11_Witness ==
    /\ mpc = "done"
    /\ mKind = "physician"
    /\ MList = <<>>
    /\ mEmbed = "nokey"
    /\ mInfo.first_name = Null
    /\ mResult = Failure("No doctor reference data available")

\* the greatest score of the list
MMaxScore == MScore(MEarliestMax)

\* C12: when a matcher returns an entity and two or more entities of the
\* list attain the greatest score, the entity returned is the earliest of
\* them in the list: none that stands before it attains the greatest score.
C12_TieKeepsEarliest ==
    (mpc = "done" /\ mResult.status /\ mResult.matched # None) =>
        \E i \in MIndexes :
            /\ mResult.matched = MList[i]
            /\ MScore(i) = MMaxScore
            /\ \A j \in MIndexes : MScore(j) = MMaxScore => i <= j

\* two entities tie on the greatest score and the first is returned
C12_Witness ==
    /\ mpc = "done"
    /\ Len(MList) = 2
    /\ MScore(1) = MScore(2)
    /\ MScore(1) > 0
    /\ MList[1] # MList[2]
    /\ mResult.status
    /\ mResult.matched = MList[1]

\* the queries the applied matcher can be given
MInfos ==
    CASE mKind = "physician" -> PhysicianInfos
      [] mKind = "facility" -> FacilityInfos
      [] OTHER -> LabReports

\* the applied matcher on another query and the same reference list
MMatch(info) ==
    CASE mKind = "physician" -> match_physician(info, mRefs.doctors, mEmbed)
      [] mKind = "facility" -> match_facility(info, mRefs.institutions)
      [] OTHER -> match_lab_report(info, mRefs.sample_lab_tests)

\* a / b <= c / d
FracLeq(x, y) == x.num * y.den <= y.num * x.den
FracEq(x, y) == x.num * y.den = y.num * x.den

\* the greatest of the values f gives to the entities of the list, 0 for none
MGreatest(f(_)) ==
    IF \E i \in MIndexes : f(i) > 0
    THEN LET k == CHOOSE i \in MIndexes : \A j \in MIndexes : f(j) <= f(i)
         IN  f(k)
    ELSE 0

\* C17: the confidence of a Match Result is the greatest score of the list
\* divided by the greatest score the scheme can give (2 for the physician
\* and facility matchers, 3 for the lab-report matcher); it lies between 0
\* and 1; and it does not decrease with the greatest score, being that
\* score over a fixed positive number: in particular, of two queries put to
\* the same one-entity list, the one with the greater score never gets the
\* smaller confidence.
C17_ConfidenceIsScoreOverFull ==
    (mpc = "done" /\ mResult.status) =>
        /\ FracEq(mResult.confidence, Frac(MMaxScore, MFull))
        /\ mResult.confidence.den > 0
        /\ 0 <= mResult.confidence.num
        /\ mResult.confidence.num <= mResult.confidence.den
        /\ Len(MList) = 1 =>
              \A info \in MInfos :
                  LET other == MMatch(info)
                  IN  (other.status /\ MScore(1) <= MScoreOf(info, 1))
                          => FracLeq(mResult.confidence, other.confidence)

\* a lab report matched on the parameter only: confidence 2/3
C17_Witness ==
    /\ mpc = "done"
    /\ mKind = "lab"
    /\ mResult.status
    /\ MMaxScore = 2
    /\ mResult.confidence = Frac(2, 3)

\* C19: a Match Result whose greatest score is positive is labelled
\* "Similar: Typo" when that score is at least 2 and "Alternative" when it is
\* 1, in the three matchers alike; a lab report matched on the parameter
\* alone (2 of 3) is "Similar: Typo", one matched on the test type alone is
\* "Alternative".
C19_LabelByThreshold ==
    (mpc = "done" /\ mResult.status /\ MMaxScore > 0) =>
        /\ MMaxScore >= 2 => mResult.match_score = "Similar: Typo"
        /\ MMaxScore < 2 => mResult.match_score = "Alternative"

\* the parameter of the best lab test matched and its test type did not
C19_Witness ==
    /\ mpc = "done"
    /\ mKind = "lab"
    /\ mResult.status
    /\ MMaxScore = 2
    /\ ~Shares(Lower(Get(mInfo.test_type)), Lower(mResult.matched.test_type))
    /\ mResult.match_score = "Similar: Typo"

C19_WitnessTestTypeOnly ==
    /\ mpc = "done"
    /\ mKind = "lab"
    /\ mResult.status
    /\ MMaxScore = 1
    /\ mResult.match_score = "Alternative"

\* the weight of a field pair when either case-folded string contains the
\* other, 0 otherwise
PairWeight(q, r, w) == IF Shares(Lower(Get(q)), Lower(r)) THEN w ELSE 0

\* the sum of the weights of the field pairs of the i-th entity, each pair
\* tested on its own
MSumOfWeights(i) ==
    CASE mKind = "physician" ->
             PairWeight(mInfo.first_name, MList[i].doctorName, 1)
             + PairWeight(mInfo.last_name, MList[i].doctorLastName, 1)
      [] mKind = "facility" ->
             PairWeight(mInfo.facility_name, MList[i].displayName, 2)
             + PairWeight(mInfo.facility_name, MList[i].value, 1)
      [] OTHER ->
             PairWeight(mInfo.name, MList[i].parameter, 2)
             + PairWeight(mInfo.test_type, MList[i].test_type, 1)

\* the facility scheme: the value pair counts only when the displayName
\* pair does not match
MFacilityEitherOr(i) ==
    IF PairWeight(mInfo.facility_name, MList[i].displayName, 2) = 2 THEN 2
    ELSE PairWeight(mInfo.facility_name, MList[i].value, 1)

\* C20 as stated: in each matcher the score of an entity is the sum of the
\* weights of its field pairs, each pair tested independently of the others,
\* and the confidence reported is the greatest such sum over the scheme's
\* maximum.
C20_ScoreIsSumOverAllPairs ==
    (mpc = "done" /\ mResult.status) =>
        /\ \A i \in MIndexes : MScore(i) = MSumOfWeights(i)
        /\ FracEq(mResult.confidence, Frac(MGreatest(MSumOfWeights), MFull))

\* C20 as amended: the physician and lab-report matchers sum the weights of
\* their two field pairs, each tested independently; the facility matcher
\* gives 2 when the displayName pair matches and tests the value pair, for
\* 1, only when it does not, so that an institution matching on both pairs
\* scores 2 and not 3.
C20_ScoreIsSumExceptFacilityEitherOr ==
    (mpc = "done" /\ mResult.status) =>
        /\ mKind # "facility" =>
              /\ \A i \in MIndexes : MScore(i) = MSumOfWeights(i)
              /\ FracEq(mResult.confidence,
                        Frac(MGreatest(MSumOfWeights), MFull))
        /\ mKind = "facility" =>
              /\ \A i \in MIndexes : MScore(i) = MFacilityEitherOr(i)
              /\ FracEq(mResult.confidence,
                        Frac(MGreatest(MFacilityEitherOr), MFull))

\* a doctor matching on both names scored 1 + 1
C20_Witness ==
    /\ mpc = "done"
    /\ mKind = "physician"
    /\ mResult.status
    /\ MSumOfWeights(mResult.matched.id) = 2
    /\ \E i \in MIndexes : MSumOfWeights(i) = 1
    /\ mResult.confidence = Frac(2, 2)

\* an institution matching on displayName and on value scored 2
C20_WitnessFacilityBoth ==
    /\ mpc = "done"
    /\ mKind = "facility"
    /\ mResult.status
    /\ mResult.matched # None
    /\ MSumOfWeights(mResult.matched.id) = 3
    /\ mResult.confidence = Frac(2, 2)

\* the fields the applied matcher compares, as the query holds them
MFields ==
    CASE mKind = "physician" -> {mInfo.first_name, mInfo.last_name}
      [] mKind = "facility" -> {mInfo.facility_name}
      [] OTHER -> {mInfo.name, mInfo.test_type}

\* a failure outcome: status false and a message, and nothing else
IsFailure(m) == DOMAIN m = {"status", "message"} /\ ~m.status

\* C24 as stated: when every compared field is missing from the extracted
\* entity and the reference list is non-empty, the matcher awards every
\* entity of the list the full score and returns the first entity of the
\* list with "Similar: Typo" and confidence 1.0.
C24_AllMissingReturnsFirstEntity ==
    (mpc = "done" /\ MFields = {Missing} /\ MList # <<>>) =>
        /\ \A i \in MIndexes : MScore(i) = MFull
        /\ mResult.status
        /\ mResult.matched = MList[1]
        /\ mResult.match_score = "Similar: Typo"
        /\ IsOne(mResult.confidence)

\* C24: when every compared field is missing from the extracted entity and
\* the reference list is non-empty, every entity of the list scores the full
\* score; the facility and lab-report matchers, and the physician matcher
\* when its retriever was built, return the first entity of the list with
\* "Similar: Typo" and confidence 1.0, never "Unknown"; the physician matcher
\* whose retriever could not be built returns a failure outcome instead.
C24_AllMissingReturnsFirstEntityUnlessNoRetriever ==
    (mpc = "done" /\ MFields = {Missing} /\ MList # <<>>) =>
        /\ \A i \in MIndexes : MScore(i) = MFull
        /\ mResult.status <=> (mKind = "physician" => mEmbed = "ok")
        /\ mResult.status =>
              /\ mResult.matched = MList[1]
              /\ mResult.match_score = "Similar: Typo"
              /\ IsOne(mResult.confidence)
        /\ ~mResult.status => IsFailure(mResult)

\* two entities, neither of which the empty query resembles more than the
\* other, and the first is returned with full confidence
C24_Witness ==
    /\ mpc = "done"
    /\ MFields = {Missing}
    /\ Len(MList) = 2
    /\ MList[1].id # MList[2].id
    /\ mResult.status
    /\ mResult.matched = MList[1]
    /\ mResult.match_score = "Similar: Typo"
    /\ IsOne(mResult.confidence)

C24_WitnessNoRetriever ==
    /\ mpc = "done"
    /\ mKind = "physician"
    /\ MFields = {Missing}
    /\ MList # <<>>
    /\ mEmbed = "nokey"
    /\ IsFailure(mResult)

\* the messages of a retriever that could not be built
EmbeddingMessages ==
    {"OpenAI API key required for embeddings", "embedding error"}

\* C26: the physician matcher builds its embedding retriever before it reads
\* the query and scores, and never uses it: with a non-empty doctor list and
\* the embedding service unavailable (no key) or failing, _match_physician
\* returns a failure outcome that carries the embedding error, whatever the
\* query holds and even when a doctor of the list matches it exactly; with
\* the retriever built the outcome is the one the scores give; the facility
\* and lab-report matchers give the same outcome whatever the state of the
\* embedding service.
C26_PhysicianFailsWithoutRetriever ==
    (mpc = "done" /\ MList # <<>>) =>
        /\ (mKind = "physician" /\ mEmbed # "ok") =>
              /\ IsFailure(mResult)
              /\ mResult.message \in EmbeddingMessages
        /\ (mKind = "physician" /\ mEmbed = "ok") =>
              mResult = match_physician(mInfo, mRefs.doctors, "ok")
        /\ (mKind # "physician" /\ Null \notin MFields) =>
              /\ mResult.status
              /\ (\E i \in MIndexes : MSameNames(i)) =>
                    IsOne(mResult.confidence)
        /\ mKind = "facility" =>
              mResult = match_facility(mInfo, mRefs.institutions)
        /\ mKind = "lab" =>
              mResult = match_lab_report(mInfo, mRefs.sample_lab_tests)

\* no key, a doctor of the list equals the query, and the outcome is the
\* failure
C26_Witness ==
    /\ mpc = "done"
    /\ mKind = "physician"
    /\ mEmbed = "nokey"
    /\ \E i \in MIndexes : MExact(i)
    /\ IsFailure(mResult)
    /\ mResult.message = "OpenAI API key required for embeddings"

C26_WitnessLabUnaffected ==
    /\ mpc = "done"
    /\ mKind = "lab"
    /\ mEmbed = "nokey"
    /\ \E i \in MIndexes : MExact(i)
    /\ mResult.status
    /\ IsOne(mResult.confidence)

----------------------------------------------------------------------------
(* Properties of the experiment loop and of the conversion loop *)

\* the repetition whose call had this outcome ended in an exception
RepetitionRaised(outcome) ==
    \/ outcome.raised
    \/ try_parse_json(extract_json_from_xml_or_markdown(outcome.text)) = "raise"

IsErrorRecord(detail) == DOMAIN detail = {"run", "error"}

\* the detail records answer the calls one for one, in order, and a call
\* whose repetition raised is answered by an error record
RecordsAnswerCalls(details, outcomes) ==
    /\ Len(details) = Len(outcomes)
    /\ \A i \in 1..Len(details) :
          /\ details[i].run = i
          /\ IsErrorRecord(details[i]) <=> RepetitionRaised(outcomes[i])

AllRaised(outcomes) == \A i \in 1..Len(outcomes) : outcomes[i].raised

\* C7: a transport or service error raised by an external call of any of the
\* scripts is caught where the call is made and turned into an error value;
\* no script is stopped by such an error propagating uncaught.
C7_NoScriptStoppedByUncaughtError ==
    /\ epc # "crashed"
    /\ dpc # "crashed"

\* C8: an exception raised in one repetition of the experiment loop, by the
\* generator call or by the processing of its response, becomes the error
\* record of that repetition and the loop goes on with the next repetition;
\* a pair whose RUNS_PER_PROMPT calls all raise is summarised with
\* successes = 0 and RUNS_PER_PROMPT error records, and the batch runs to the
\* end: every pair is summarised and the report is saved.
C8_FailedRepetitionRecordedBatchCompletes ==
    /\ epc # "crashed"
    /\ run = Len(calls)
    /\ RecordsAnswerCalls(detailed_runs, calls)
    /\ Len(results) = Len(history)
    /\ \A k \in 1..Len(results) :
          /\ Len(history[k]) = RUNS_PER_PROMPT
          /\ RecordsAnswerCalls(results[k].details, history[k])
          /\ AllRaised(history[k]) =>
                /\ results[k].successes = 0
                /\ Len(results[k].details) = RUNS_PER_PROMPT
                /\ \A i \in 1..RUNS_PER_PROMPT :
                      IsErrorRecord(results[k].details[i])
    /\ epc \in {"save", "done"} => Len(results) = MaxPrompts * Len(Methods)
    /\ epc = "done" <=> saved

\* the batch is over; one pair had every call raise, and in another pair a
\* call raised, the processing of a later answer raised, and the repetition
\* after that succeeded
C8_Witness ==
    /\ epc = "done"
    /\ \E k \in 1..Len(results) :
          /\ AllRaised(history[k])
          /\ results[k].successes = 0
    /\ \E k \in 1..Len(results) :
          /\ history[k][1].raised
          /\ ~history[k][2].raised
          /\ IsErrorRecord(results[k].details[2])
          /\ ~IsErrorRecord(results[k].details[3])
          /\ results[k].successes = 1

IsFullRecord(detail) ==
    DOMAIN detail = {"run", "raw_output", "json_extracted", "parsed_ok",
                     "input_tokens", "output_tokens", "cost"}

\* the detail records whose parsed-ok flag is true
ParsedOk(details) ==
    {i \in 1..Len(details) :
        IsFullRecord(details[i]) /\ details[i].parsed_ok}

\* one record per repetition made, in order, each a full record or an error
\* record; the flag of a full record is the validator's verdict on the
\* normalizer's output of the response of that repetition
DetailsWellFormed(details, outcomes) ==
    /\ Len(details) = Len(outcomes)
    /\ \A i \in 1..Len(details) :
          /\ details[i].run = i
          /\ IsFullRecord(details[i]) \/ IsErrorRecord(details[i])
          /\ IsFullRecord(details[i]) =>
                /\ ~outcomes[i].raised
                /\ details[i].raw_output = outcomes[i].text
                /\ details[i].json_extracted =
                       extract_json_from_xml_or_markdown(outcomes[i].text)
                /\ details[i].parsed_ok =
                       (json_loads(details[i].json_extracted) = "ok")

\* C22: when the repetitions of a (prompt, method) pair are over, the detail
\* list holds one record per repetition, in order, each a full record or an
\* error record, and the summary's success count is the number of detail
\* records whose parsed-ok flag is true, the flag being the validator applied
\* to the normalizer's output of that repetition's response; so
\* 0 <= successes <= total runs.
C22_SuccessesCountParsedOkRecords ==
    /\ DetailsWellFormed(detailed_runs, calls)
    /\ successes = Cardinality(ParsedOk(detailed_runs))
    /\ epc = "summarize" => Len(detailed_runs) = RUNS_PER_PROMPT
    /\ \A k \in 1..Len(results) :
          /\ results[k].total_runs = RUNS_PER_PROMPT
          /\ Len(results[k].details) = results[k].total_runs
          /\ DetailsWellFormed(results[k].details, history[k])
          /\ results[k].successes = Cardinality(ParsedOk(results[k].details))
          /\ 0 <= results[k].successes
          /\ results[k].successes <= results[k].total_runs

\* a summarised pair with an error record, a record whose flag is true and
\* success count 1, and another with a record whose flag is false and
\* success count 0
C22_Witness ==
    /\ epc = "done"
    /\ \E k \in 1..Len(results) :
          /\ results[k].successes = 1
          /\ \E i \in 1..RUNS_PER_PROMPT : IsErrorRecord(results[k].details[i])
          /\ Cardinality(ParsedOk(results[k].details)) = 1
    /\ \E k \in 1..Len(results) :
          /\ results[k].successes = 0
          /\ \E i \in 1..RUNS_PER_PROMPT :
                /\ IsFullRecord(results[k].details[i])
                /\ ~results[k].details[i].parsed_ok

C22_WitnessAllParsed ==
    \E k \in 1..Len(results) :
        /\ results[k].successes = RUNS_PER_PROMPT
        /\ Cardinality(ParsedOk(results[k].details)) = RUNS_PER_PROMPT

----------------------------------------------------------------------------
(* Properties of extract_json_from_xml_or_markdown *)

IsText(t) == t \notin {NoneText, AttributeError}

\* the text holds neither a fence nor a wrapper tag
Unwrapped(t) ==
    \A i \in 1..Len(t) : t[i] \notin {Fence} \cup OpenTags \cup CloseTags

C13_WitnessFenceOutside ==
    /\ npc = "once"
    /\ nShape = "fence_around_tag"
    /\ nPayload = <<"x", "\n">>
    /\ nOut = <<"x">>

C13_WitnessUnwrapped ==
    /\ npc = "once"
    /\ nText = <<" ", "x", "\n">>
    /\ nOut = <<"x">>

\* C14 (as stated): normalizing the output of the function gives that output
\* again.
C14_Idempotent ==
    npc = "twice" => nTwice = nOut

\* C15 (as stated): the function never raises; for the empty string and for
\* a null argument it returns the empty string, and for every other argument
\* a string.
C15_NeverRaises ==
    npc # "ready" =>
        /\ nOut # AttributeError
        /\ nText \in {<<>>, NoneText} => nOut = <<>>

\* C16 (as stated): the output is empty or a contiguous part of the input
\* that neither starts nor ends with whitespace; nothing is deleted from the
\* middle of what is returned.
C16_OutputIsTrimmedSubstring ==
    (npc # "ready" /\ IsText(nText) /\ IsText(nOut)) =>
        \/ nOut = <<>>
        \/ In(nOut, nText) /\ Strip(nOut) = nOut

====
